---- MODULE Spec2Model ----
(***************************************************************************)
(* Model of the deet debugger (proj-1/deet): the Debugger command loop,    *)
(* the Inferior (tracee) controller and its word-granular memory patching. *)
(***************************************************************************)
EXTENDS Integers, Sequences, FiniteSets, TLC

(***************************************************************************)
(* Bounds of the model                                                     *)
(***************************************************************************)
\* number of 8-byte words of tracee memory that are modelled
MemWords == 2
\* the breakpoint table is capped at this many entries
MaxBreakpoints == 2
\* at most this many tracee processes are ever spawned
MaxSpawns == 2

Addrs == 0 .. (8 * MemWords - 1)

(***************************************************************************)
(* Bytes and 64-bit words.  A u64 is held as its eight little-endian      *)
(* bytes (index 0 = least significant), because 2^64 does not fit the      *)
(* checker's integers.  Shifts in write_byte are by 8 * byte_offset, so    *)
(* they move whole bytes.                                                  *)
(***************************************************************************)
Byte == 0 .. 255
ByteIdx == 0 .. 7

RECURSIVE BitAndN(_, _, _)
BitAndN(x, y, n) ==
    IF n = 0 THEN 0
    ELSE (x % 2) * (y % 2) + 2 * BitAndN(x \div 2, y \div 2, n - 1)

RECURSIVE BitOrN(_, _, _)
BitOrN(x, y, n) ==
    IF n = 0 THEN 0
    ELSE (IF (x % 2) + (y % 2) > 0 THEN 1 ELSE 0)
         + 2 * BitOrN(x \div 2, y \div 2, n - 1)

\* (v as u64)
FromU8(v) == [i \in ByteIdx |-> IF i = 0 THEN v ELSE 0]
\* (w as u8)
AsU8(w) == w[0]
\* w >> bits, bits a multiple of 8 below 64
WordShr(w, bits) ==
    [i \in ByteIdx |-> IF i + (bits \div 8) <= 7 THEN w[i + (bits \div 8)] ELSE 0]
\* w << bits, bits a multiple of 8 below 64
WordShl(w, bits) ==
    [i \in ByteIdx |-> IF i - (bits \div 8) >= 0 THEN w[i - (bits \div 8)] ELSE 0]
WordAnd(w1, w2) == [i \in ByteIdx |-> BitAndN(w1[i], w2[i], 8)]
WordOr(w1, w2) == [i \in ByteIdx |-> BitOrN(w1[i], w2[i], 8)]
WordNot(w) == [i \in ByteIdx |-> 255 - w[i]]

(***************************************************************************)
(* inferior.rs: align_addr_to_word and write_byte                          *)
(***************************************************************************)
\* addr & (-(size_of::<u64>() as i64) as u64): the mask is all ones except
\* the three low bits; addresses of the model are below 2^AddrBits.
AddrBits == 16
WordMask == (2 ^ AddrBits) - 8

align_addr_to_word(addr) == BitAndN(addr, WordMask, AddrBits)

\* ptrace::read(pid, aligned_addr): the word at aligned_addr, little endian
PtraceRead(m, aligned) == [i \in ByteIdx |-> m[aligned + i]]
\* ptrace::write(pid, aligned_addr, word)
PtraceWrite(m, aligned, w) ==
    [x \in DOMAIN m |->
        IF x >= aligned /\ x < aligned + 8 THEN w[x - aligned] ELSE m[x]]

\* let orig_byte = (word >> 8 * byte_offset) & 0xff;
OrigByteNoShift(word, byte_offset) == WordAnd(word, FromU8(255))
OrigByte(word, byte_offset) ==
    WordAnd(WordShr(word, 8 * byte_offset), FromU8(255))

\* let masked_word = word & !(0xff << 8 * byte_offset);
MaskedWordWide(word, byte_offset) ==
    WordAnd(word, WordNot(WordOr(WordShl(FromU8(255), 8 * byte_offset),
                                 WordShl(FromU8(255), 8 * byte_offset + 8))))
MaskedWord(word, byte_offset) ==
    WordAnd(word, WordNot(WordShl(FromU8(255), 8 * byte_offset)))

\* let updated_word = masked_word | ((val as u64) << 8 * byte_offset);
UpdatedWordNoShift(masked_word, val, byte_offset) ==
    WordOr(masked_word, FromU8(val))
UpdatedWord(masked_word, val, byte_offset) ==
    WordOr(masked_word, WordShl(FromU8(val), 8 * byte_offset))

\* Inferior::write_byte on a tracee whose memory is m; the result carries the
\* memory after the call and the returned byte (Ok(orig_byte as u8)).
write_byte(m, addr, val) ==
    LET aligned_addr == align_addr_to_word(addr)
        byte_offset == addr - aligned_addr
        word == PtraceRead(m, aligned_addr)
        orig_byte == OrigByte(word, byte_offset)
        masked_word == MaskedWord(word, byte_offset)
        updated_word == UpdatedWord(masked_word, val, byte_offset)
    IN [mem |-> PtraceWrite(m, aligned_addr, updated_word),
        ret |-> AsU8(orig_byte),
        aligned |-> aligned_addr,
        offset |-> byte_offset]

(***************************************************************************)
(* Strings are sequences of one-character strings.                         *)
(***************************************************************************)
None == -1

HexChars == <<"0", "1", "2", "3", "4", "5", "6", "7", "8", "9",
              "a", "b", "c", "d", "e", "f">>
UpperHexChars == <<"0", "1", "2", "3", "4", "5", "6", "7", "8", "9",
                   "A", "B", "C", "D", "E", "F">>

\* char::to_digit(16)
ToDigit(c) ==
    IF \E i \in 1 .. 16 : HexChars[i] = c
    THEN (CHOOSE i \in 1 .. 16 : HexChars[i] = c) - 1
    ELSE IF \E i \in 1 .. 16 : UpperHexChars[i] = c
    THEN (CHOOSE i \in 1 .. 16 : UpperHexChars[i] = c) - 1
    ELSE None

\* the two characters of the model's alphabet that to_lowercase changes in a
\* prefix test against "0x"
ToLowerChar(c) == IF c = "X" THEN "x" ELSE c

starts_with(s, prefix) ==
    /\ Len(s) >= Len(prefix)
    /\ \A i \in 1 .. Len(prefix) : s[i] = prefix[i]

\* u64::from_str_radix(s, 16).ok(): None on an empty string or a character
\* that is no hexadecimal digit; a leading "+" is accepted
RECURSIVE HexValue(_, _)
HexValue(s, acc) ==
    IF s = <<>> THEN acc
    ELSE IF ToDigit(Head(s)) = None THEN None
    ELSE HexValue(Tail(s), 16 * acc + ToDigit(Head(s)))

from_str_radix16(s) ==
    LET digits == IF s # <<>> /\ Head(s) = "+" THEN Tail(s) ELSE s
    IN IF digits = <<>> THEN None ELSE HexValue(digits, 0)

\* Debugger::parse_address
parse_address(addr) ==
    LET lower == [i \in 1 .. Len(addr) |-> ToLowerChar(addr[i])]
        addr_without_0x == IF starts_with(lower, <<"0", "x">>)
                           THEN SubSeq(addr, 3, Len(addr))
                           ELSE addr
    IN from_str_radix16(addr_without_0x)

(***************************************************************************)
(* The target program: a straight-line image.  Each instruction starts at  *)
(* an address of InstrStart and is InstrLen bytes long; the instruction at *)
(* ExitAddr ends the process with status 0.                                *)
(***************************************************************************)
TextBytes == <<0, 0, 49, 237, 85, 72, 137, 229, 72, 131, 236, 16, 144, 49, 192, 195>>
Image == [a \in Addrs |-> IF a < Len(TextBytes) THEN TextBytes[a + 1] ELSE 0]
InstrStart == {2, 4, 5, 8, 12, 13, 15}
InstrLen == [a \in InstrStart |->
                IF a = 2 THEN 2 ELSE IF a = 4 THEN 1 ELSE IF a = 5 THEN 3
                ELSE IF a = 8 THEN 4 ELSE IF a = 12 THEN 1
                ELSE IF a = 13 THEN 2 ELSE 1]
Entry == 2
ExitAddr == 15
TrapByte == 204

(***************************************************************************)
(* Symbol Index (dwarf_data): the four lookups the debugger consumes.      *)
(***************************************************************************)
FunctionTable == { <<(<<"m", "a", "i", "n">>), 4>>,
                   <<(<<"a", "d", "d">>), 8>>,
                   <<(<<"f">>), 12>> }
\* <<line number, address of its first instruction>>
LineTable == { <<9, 4>>, <<10, 5>>, <<13, 8>>, <<16, 12>>, <<17, 13>> }

get_addr_for_function(name) ==
    IF \E e \in FunctionTable : e[1] = name
    THEN (CHOOSE e \in FunctionTable : e[1] = name)[2]
    ELSE None

get_addr_for_line(line) ==
    IF \E e \in LineTable : e[1] = line
    THEN (CHOOSE e \in LineTable : e[1] = line)[2]
    ELSE None

\* nearest line entry at or below the address, none outside the known ranges
get_line_from_addr(addr) ==
    LET below == {e \in LineTable : e[2] <= addr}
    IN IF below = {} \/ addr > ExitAddr THEN None
       ELSE (CHOOSE e \in below : \A d \in below : d[2] <= e[2])[1]

\* entry address of the enclosing function, none outside the known ranges
get_function_from_addr(addr) ==
    LET below == {e \in FunctionTable : e[2] <= addr}
    IN IF below = {} \/ addr > ExitAddr THEN None
       ELSE (CHOOSE e \in below : \A d \in below : d[2] <= e[2])[2]

(***************************************************************************)
(* State of the debug session                                              *)
(***************************************************************************)
VARIABLES
    inferior,      \* Debugger.inferior: None or the pid of the held Inferior
    breakpoints,   \* Debugger.breakpoints: Vec<u64>
    procs,         \* every process spawned so far, by pid
    session,       \* "running", "quit" (run returned) or "panicked"
    lastCmd,       \* the command handled last
    out,           \* what the last command printed
    oplog,         \* the process and tracing operations the last command issued
    pb             \* a write_byte round trip on a memory of its own

VARIABLES
    lcs,           \* rdiff: the grid and loop position of one lcs call
    pm,            \* parallel_map: channels, workers and output of one call
    bb,            \* balancebeam: ProxyState, its lock, tasks and connections
    ll             \* linked_list: one LinkedList<u32> and the last call on it

\* the variables of the other programs of the repository
others == <<lcs, pm, bb, ll>>
\* their value while only the debug session is looked at
LcsIdle == [phase |-> "idle"]
PmIdle == [phase |-> "idle"]
BbIdle == [phase |-> "idle"]
LlIdle == [phase |-> "idle"]
OthersIdle == lcs = LcsIdle /\ pm = PmIdle /\ bb = BbIdle /\ ll = LlIdle

vars == <<inferior, breakpoints, procs, session, lastCmd, out, oplog, pb, lcs, pm, bb, ll>>

(***************************************************************************)
(* Status (inferior.rs) and the result of Inferior::wait                   *)
(***************************************************************************)
Stopped(signal, rip) == [kind |-> "Stopped", sig |-> signal, code |-> 0, rip |-> rip]
Exited(exit_code) == [kind |-> "Exited", sig |-> "", code |-> exit_code, rip |-> 0]
Signaled(signal) == [kind |-> "Signaled", sig |-> signal, code |-> 0, rip |-> 0]
WaitErr == [kind |-> "Err", sig |-> "", code |-> 0, rip |-> 0]

(***************************************************************************)
(* Processes.  A live tracee is ptrace-stopped between commands; a killed  *)
(* one is a zombie until a waitpid reaps it; a dead process has no memory. *)
(***************************************************************************)
LiveProc(m, r, trap) == [state |-> "stopped", mem |-> m, rip |-> r, trapAt |-> trap]
DeadProc(st) == [state |-> st, mem |-> <<>>, rip |-> 0, trapAt |-> 0]

Range(f) == {f[i] : i \in DOMAIN f}

Op(name, pid) ==
    [op |-> name, pid |-> pid, addr |-> 0, val |-> 0, at |-> 0,
     unpatched |-> {}, first |-> FALSE, ran |-> {}, result |-> "", sig |-> ""]

\* the record of a wait and of the status it returned
WaitOp(pid, status) ==
    [Op("wait", pid) EXCEPT !.result = status.kind, !.sig = status.sig]

\* The tracee runs from rip r until its next event.  Executing the trap byte
\* stops it with SIGTRAP and rip one past the trap byte.  Execution that
\* starts inside an instruction is undefined: it may fault, end the process,
\* or fall back in step at the next instruction boundary.
RECURSIVE RunTracee(_, _, _)
RunTracee(m, r, ran) ==
    IF r \notin DOMAIN m
    THEN {[status |-> Stopped("SIGSEGV", r), trapAt |-> 0, ran |-> ran],
          [status |-> Exited(1), trapAt |-> 0, ran |-> ran]}
    ELSE IF m[r] = TrapByte
    THEN {[status |-> Stopped("SIGTRAP", r + 1), trapAt |-> r, ran |-> ran]}
    ELSE IF r \in InstrStart
    THEN IF r = ExitAddr
         THEN {[status |-> Exited(0), trapAt |-> 0, ran |-> ran \cup {r}]}
         ELSE RunTracee(m, r + InstrLen[r], ran \cup {r})
    ELSE {[status |-> Stopped("SIGSEGV", r), trapAt |-> 0, ran |-> ran],
          [status |-> Exited(1), trapAt |-> 0, ran |-> ran]}
         \cup (IF \E b \in InstrStart : b > r
               THEN RunTracee(m, CHOOSE b \in InstrStart :
                                     b > r /\ \A c \in InstrStart : c > r => b <= c,
                              ran)
               ELSE {})

(***************************************************************************)
(* inferior.rs: kill, cont, wait                                           *)
(***************************************************************************)
\* Inferior::kill: Child::kill sends SIGKILL and does not wait
child_kill(ps, pid) ==
    IF ps[pid].state = "stopped"
    THEN [ps EXCEPT ![pid] = DeadProc("zombie")]
    ELSE ps

\* the record of a resume: where the tracee was stopped and which recorded
\* breakpoints did not hold the trap byte at that moment
ContOp(ps, pid, bps, isFirst) ==
    [Op("cont", pid) EXCEPT
        !.at = IF ps[pid].state = "stopped" /\ ps[pid].trapAt \in Range(bps)
               THEN ps[pid].trapAt ELSE 0,
        !.unpatched = IF ps[pid].state = "stopped"
                      THEN {a \in Range(bps) : ps[pid].mem[a] # TrapByte}
                      ELSE {},
        !.first = isFirst]

\* Inferior::cont followed by Inferior::wait(None), as Run and Continue issue
\* them: every possible [procs, result, log]
ContThenWait(ps, pid, bps, isFirst) ==
    IF ps[pid].state = "stopped"
    THEN { [procs |-> [ps EXCEPT ![pid] =
                          IF o.status.kind = "Stopped"
                          THEN LiveProc(ps[pid].mem, o.status.rip, o.trapAt)
                          ELSE DeadProc("reaped")],
            result |-> o.status,
            log |-> <<ContOp(ps, pid, bps, isFirst),
                      [WaitOp(pid, o.status) EXCEPT !.ran = o.ran]>>]
           : o \in RunTracee(ps[pid].mem, ps[pid].rip, {}) }
    ELSE IF ps[pid].state = "zombie"
    THEN { [procs |-> [ps EXCEPT ![pid] = DeadProc("reaped")],
            result |-> Signaled("SIGKILL"),
            log |-> <<ContOp(ps, pid, bps, isFirst),
                      WaitOp(pid, Signaled("SIGKILL"))>>] }
    ELSE { [procs |-> ps, result |-> WaitErr,
            log |-> <<ContOp(ps, pid, bps, isFirst), WaitOp(pid, WaitErr)>>] }

(***************************************************************************)
(* inferior.rs: Inferior::new                                              *)
(***************************************************************************)
\* for addr in breakpoints { i.write_byte(*addr, 0xcc).unwrap(); }
RECURSIVE ApplyBreakpointsButLast(_, _)
ApplyBreakpointsButLast(m, bps) ==
    IF Len(bps) <= 1 THEN m
    ELSE ApplyBreakpointsButLast(write_byte(m, Head(bps), TrapByte).mem, Tail(bps))
RECURSIVE ApplyBreakpoints(_, _)
ApplyBreakpoints(m, bps) ==
    IF bps = <<>> THEN m
    ELSE ApplyBreakpoints(write_byte(m, Head(bps), TrapByte).mem, Tail(bps))

PokeOp(pid, addr, val) == [Op("poke", pid) EXCEPT !.addr = addr, !.val = val]

\* what the first wait of a freshly spawned child can observe
FirstStatus == {"trap", "other_stop", "exited", "signaled", "err"}

\* the status the first wait returns
FirstWaitStatus(first) ==
    IF first = "trap" THEN Stopped("SIGTRAP", Entry)
    ELSE IF first = "other_stop" THEN Stopped("SIGSTOP", Entry)
    ELSE IF first = "exited" THEN Exited(1)
    ELSE IF first = "signaled" THEN Signaled("SIGKILL")
    ELSE WaitErr

\* Inferior::new without the match on the stop signal
Inferior_new_AnyStop(ps, bps, spawnOk, first) ==
    LET pid == Len(ps) + 1
        spawnLog == <<[Op("spawn", pid) EXCEPT !.result = "Ok"],
                      WaitOp(pid, FirstWaitStatus(first))>>
    IN IF ~spawnOk
       THEN [procs |-> ps, inferior |-> None,
             log |-> <<[Op("spawn", 0) EXCEPT !.result = "Err"]>>]
       ELSE IF first = "err"
       THEN [procs |-> Append(ps, LiveProc(Image, Entry, 0)),
             inferior |-> None, log |-> spawnLog]
       ELSE IF first \in {"exited", "signaled"}
       THEN [procs |-> Append(ps, DeadProc("reaped")),
             inferior |-> None, log |-> spawnLog]
       ELSE [procs |-> Append(ps, LiveProc(ApplyBreakpoints(Image, bps), Entry, 0)),
             inferior |-> pid,
             log |-> spawnLog \o [i \in 1 .. Len(bps) |-> PokeOp(pid, bps[i], TrapByte)]]

\* Inferior::new(target, args, breakpoints): [procs, inferior, log], inferior
\* None when it returns None
Inferior_new(ps, bps, spawnOk, first) ==
    LET pid == Len(ps) + 1
        spawnLog == <<[Op("spawn", pid) EXCEPT !.result = "Ok"],
                      WaitOp(pid, FirstWaitStatus(first))>>
    IN IF ~spawnOk
       THEN [procs |-> ps, inferior |-> None,
             log |-> <<[Op("spawn", 0) EXCEPT !.result = "Err"]>>]
       ELSE IF first = "err"
       THEN [procs |-> Append(ps, LiveProc(Image, Entry, 0)),
             inferior |-> None, log |-> spawnLog]
       ELSE IF first \in {"exited", "signaled"}
       THEN [procs |-> Append(ps, DeadProc("reaped")),
             inferior |-> None, log |-> spawnLog]
       ELSE [procs |-> Append(ps, LiveProc(ApplyBreakpoints(Image, bps), Entry, 0)),
             inferior |-> IF first = "trap" THEN pid ELSE None,
             log |-> spawnLog \o [i \in 1 .. Len(bps) |-> PokeOp(pid, bps[i], TrapByte)]]

(***************************************************************************)
(* debugger.rs: print_status                                               *)
(***************************************************************************)
Msg(text, n, addr, sig) == [msg |-> text, n |-> n, addr |-> addr, sig |-> sig]

print_status(result) ==
    IF result.kind = "Exited"
    THEN <<Msg("Child exited (status)", result.code, 0, "")>>
    ELSE IF result.kind = "Signaled"
    THEN <<Msg("Child stopped (signal)", 0, 0, result.sig)>>
    ELSE IF result.kind = "Stopped"
    THEN <<Msg("Child stopped (signal)", 0, 0, result.sig)>>
         \o (IF get_line_from_addr(result.rip) # None
             THEN <<Msg("rip, line", get_line_from_addr(result.rip), result.rip, "")>>
             ELSE <<>>)
    ELSE <<>>

(***************************************************************************)
(* debugger.rs: Debugger::new and the command handlers of Debugger::run    *)
(***************************************************************************)
NoCmd == [cmd |-> "", loc |-> <<>>, n0 |-> 0]
Cmd(name, loc) == [cmd |-> name, loc |-> loc, n0 |-> Len(breakpoints)]

PbIdle == [phase |-> "idle", mem0 |-> <<>>, a |-> 0, v |-> 0,
           mem1 |-> <<>>, ret1 |-> 0, aligned |-> 0, offset |-> 0, mem2 |-> <<>>]

Init ==
    /\ inferior = None
    /\ breakpoints = <<>>
    /\ procs = <<>>
    /\ session = "running"
    /\ lastCmd = NoCmd
    /\ out = <<>>
    /\ oplog = <<>>
    /\ pb = PbIdle
    /\ OthersIdle

\* Run that leaves the slot as it was when the start fails
RunKeepsOldOnFailure ==
    /\ session = "running"
    /\ Len(procs) < MaxSpawns
    /\ \E spawnOk \in BOOLEAN, first \in FirstStatus :
         LET had == inferior # None
             procs1 == IF had THEN child_kill(procs, inferior) ELSE procs
             log1 == IF had THEN <<Op("kill", inferior)>> ELSE <<>>
             new == Inferior_new(procs1, breakpoints, spawnOk, first)
         IN IF new.inferior = None
            THEN /\ inferior' = inferior
                 /\ procs' = new.procs
                 /\ out' = <<Msg("Error starting subprocess", 0, 0, "")>>
                 /\ oplog' = log1 \o new.log
            ELSE \E r \in ContThenWait(new.procs, new.inferior, breakpoints, TRUE) :
                 /\ inferior' = new.inferior
                 /\ procs' = r.procs
                 /\ out' = print_status(r.result)
                 /\ oplog' = log1 \o new.log \o r.log
    /\ lastCmd' = Cmd("run", <<>>)
    /\ UNCHANGED <<breakpoints, session, pb, others>>

\* DebuggerCommand::Run(args)
Run ==
    /\ session = "running"
    /\ Len(procs) < MaxSpawns
    /\ \E spawnOk \in BOOLEAN, first \in FirstStatus :
         LET had == inferior # None
             procs1 == IF had THEN child_kill(procs, inferior) ELSE procs
             log1 == IF had THEN <<Op("kill", inferior)>> ELSE <<>>
             new == Inferior_new(procs1, breakpoints, spawnOk, first)
         IN IF new.inferior = None
            THEN /\ inferior' = None
                 /\ procs' = new.procs
                 /\ out' = <<Msg("Error starting subprocess", 0, 0, "")>>
                 /\ oplog' = log1 \o new.log
            ELSE \E r \in ContThenWait(new.procs, new.inferior, breakpoints, TRUE) :
                 /\ inferior' = new.inferior
                 /\ procs' = r.procs
                 /\ out' = print_status(r.result)
                 /\ oplog' = log1 \o new.log \o r.log
    /\ lastCmd' = Cmd("run", <<>>)
    /\ UNCHANGED <<breakpoints, session, pb, others>>

\* Continue without the early return of the None case: the handler goes on to
\* unwrap the empty slot
ContinueNoEarlyReturn ==
    /\ session = "running"
    /\ IF inferior = None
       THEN /\ out' = <<Msg("run process first", 0, 0, "")>>
            /\ oplog' = <<>>
            /\ procs' = procs
            /\ session' = "panicked"
       ELSE \E r \in ContThenWait(procs, inferior, breakpoints, FALSE) :
            /\ procs' = r.procs
            /\ out' = print_status(r.result)
            /\ oplog' = r.log
            /\ session' = session
    /\ lastCmd' = Cmd("continue", <<>>)
    /\ UNCHANGED <<inferior, breakpoints, pb, others>>

\* DebuggerCommand::Continue
Continue ==
    /\ session = "running"
    /\ IF inferior = None
       THEN /\ out' = <<Msg("run process first", 0, 0, "")>>
            /\ oplog' = <<>>
            /\ procs' = procs
       ELSE \E r \in ContThenWait(procs, inferior, breakpoints, FALSE) :
            /\ procs' = r.procs
            /\ out' = print_status(r.result)
            /\ oplog' = r.log
    /\ lastCmd' = Cmd("continue", <<>>)
    /\ UNCHANGED <<inferior, breakpoints, session, pb, others>>

\* Quit with the result of kill unwrapped: a failed kill panics
QuitKillUnwrap ==
    /\ session = "running"
    /\ IF inferior = None
       THEN /\ out' = <<>>
            /\ oplog' = <<>>
            /\ procs' = procs
       ELSE LET killed == child_kill(procs, inferior)
            IN /\ procs' = IF killed[inferior].state = "zombie"
                           THEN [killed EXCEPT ![inferior] = DeadProc("reaped")]
                           ELSE killed
               /\ out' = print_status(IF killed[inferior].state = "zombie"
                                      THEN Signaled("SIGKILL") ELSE WaitErr)
               /\ oplog' = <<Op("kill", inferior),
                             WaitOp(inferior,
                                    IF killed[inferior].state = "zombie"
                                    THEN Signaled("SIGKILL") ELSE WaitErr)>>
    /\ session' = IF inferior # None /\ procs[inferior].state # "stopped"
                  THEN "panicked" ELSE "quit"
    /\ lastCmd' = Cmd("quit", <<>>)
    /\ UNCHANGED <<inferior, breakpoints, pb, others>>

\* DebuggerCommand::Quit
Quit ==
    /\ session = "running"
    /\ IF inferior = None
       THEN /\ out' = <<>>
            /\ oplog' = <<>>
            /\ procs' = procs
       ELSE LET killed == child_kill(procs, inferior)
            IN /\ procs' = IF killed[inferior].state = "zombie"
                           THEN [killed EXCEPT ![inferior] = DeadProc("reaped")]
                           ELSE killed
               /\ out' = print_status(IF killed[inferior].state = "zombie"
                                      THEN Signaled("SIGKILL") ELSE WaitErr)
               /\ oplog' = <<Op("kill", inferior),
                             WaitOp(inferior,
                                    IF killed[inferior].state = "zombie"
                                    THEN Signaled("SIGKILL") ELSE WaitErr)>>
    /\ session' = "quit"
    /\ lastCmd' = Cmd("quit", <<>>)
    /\ UNCHANGED <<inferior, breakpoints, pb, others>>

\* DebuggerCommand::Backtrace, with Inferior::print_backtrace
Backtrace ==
    /\ session = "running"
    /\ IF inferior = None \/ procs[inferior].state # "stopped"
       THEN /\ out' = <<>>
            /\ oplog' = IF inferior = None THEN <<>> ELSE <<Op("getregs", inferior)>>
            /\ session' = session
       ELSE LET rip == procs[inferior].rip
                line == get_line_from_addr(rip)
                func == get_function_from_addr(rip)
            IN /\ oplog' = <<Op("getregs", inferior)>>
               /\ IF line = None \/ func = None
                  THEN /\ out' = <<Msg("%rip register", 0, rip, "")>>
                       /\ session' = "panicked"
                  ELSE /\ out' = <<Msg("%rip register", 0, rip, ""),
                                   Msg("#func (#line)", line, func, "")>>
                       /\ session' = session
    /\ lastCmd' = Cmd("backtrace", <<>>)
    /\ UNCHANGED <<inferior, breakpoints, procs, pb, others>>

\* ResolveLocation with point initialised to 1 instead of 0
ResolveLocationNonZeroDefault(regex) ==
    IF starts_with(regex, <<"*">>)
    THEN 0
    ELSE IF parse_address(regex) # None
    THEN (IF get_addr_for_line(parse_address(regex)) # None
          THEN get_addr_for_line(parse_address(regex)) ELSE 1)
    ELSE IF get_addr_for_function(regex) # None
    THEN get_addr_for_function(regex)
    ELSE 1

\* the address a break location resolves to in the BreakPoint handler, 0 when
\* the handler sets no breakpoint
ResolveLocation(regex) ==
    IF starts_with(regex, <<"*">>)
    THEN 0
    ELSE IF parse_address(regex) # None
    THEN (IF get_addr_for_line(parse_address(regex)) # None
          THEN get_addr_for_line(parse_address(regex)) ELSE 0)
    ELSE IF get_addr_for_function(regex) # None
    THEN get_addr_for_function(regex)
    ELSE 0

BreakLocations ==
    { <<"m", "a", "i", "n">>, <<"a", "d", "d">>, <<"f">>,
      <<"n", "o", "s", "u", "c", "h">>, <<"1", "0">>,
      <<"*", "0", "x", "4">> }

\* the handler with the new entry put in front of the table
BreakPointPushFront(regex) ==
    /\ session = "running"
    /\ LET point == ResolveLocation(regex)
       IN IF point = 0
          THEN /\ out' = <<Msg("no breakpoint set for", 0, 0, "")>>
               /\ oplog' = <<>>
               /\ UNCHANGED <<breakpoints, procs, session>>
          ELSE /\ Len(breakpoints) < MaxBreakpoints
               /\ out' = <<Msg("Set breakpoint at", Len(breakpoints), point, "")>>
               /\ breakpoints' = <<point>> \o breakpoints
               /\ IF inferior = None
                  THEN /\ oplog' = <<>>
                       /\ UNCHANGED <<procs, session>>
                  ELSE IF procs[inferior].state = "stopped"
                  THEN /\ procs' = [procs EXCEPT ![inferior].mem =
                                       write_byte(@, point, TrapByte).mem]
                       /\ oplog' = <<PokeOp(inferior, point, TrapByte)>>
                       /\ session' = session
                  ELSE /\ oplog' = <<PokeOp(inferior, point, TrapByte)>>
                       /\ session' = "panicked"
                       /\ procs' = procs
    /\ lastCmd' = Cmd("break", regex)
    /\ UNCHANGED <<inferior, pb, others>>

\* the handler without the write into the held tracee
BreakPointNoPatch(regex) ==
    /\ session = "running"
    /\ LET point == ResolveLocation(regex)
       IN IF point = 0
          THEN /\ out' = <<Msg("no breakpoint set for", 0, 0, "")>>
               /\ oplog' = <<>>
               /\ UNCHANGED <<breakpoints, procs, session>>
          ELSE /\ Len(breakpoints) < MaxBreakpoints
               /\ out' = <<Msg("Set breakpoint at", Len(breakpoints), point, "")>>
               /\ breakpoints' = Append(breakpoints, point)
               /\ IF inferior = None
                  THEN /\ oplog' = <<>>
                       /\ UNCHANGED <<procs, session>>
                  ELSE IF procs[inferior].state = "stopped"
                  THEN /\ procs' = procs
                       /\ oplog' = <<PokeOp(inferior, point, TrapByte)>>
                       /\ session' = session
                  ELSE /\ oplog' = <<PokeOp(inferior, point, TrapByte)>>
                       /\ session' = "panicked"
                       /\ procs' = procs
    /\ lastCmd' = Cmd("break", regex)
    /\ UNCHANGED <<inferior, pb, others>>

\* DebuggerCommand::BreakPoint(regex)
BreakPoint(regex) ==
    /\ session = "running"
    /\ LET point == ResolveLocation(regex)
       IN IF point = 0
          THEN /\ out' = <<Msg("no breakpoint set for", 0, 0, "")>>
               /\ oplog' = <<>>
               /\ UNCHANGED <<breakpoints, procs, session>>
          ELSE /\ Len(breakpoints) < MaxBreakpoints
               /\ out' = <<Msg("Set breakpoint at", Len(breakpoints), point, "")>>
               /\ breakpoints' = Append(breakpoints, point)
               /\ IF inferior = None
                  THEN /\ oplog' = <<>>
                       /\ UNCHANGED <<procs, session>>
                  ELSE IF procs[inferior].state = "stopped"
                  THEN /\ procs' = [procs EXCEPT ![inferior].mem =
                                       write_byte(@, point, TrapByte).mem]
                       /\ oplog' = <<PokeOp(inferior, point, TrapByte)>>
                       /\ session' = session
                  ELSE /\ oplog' = <<PokeOp(inferior, point, TrapByte)>>
                       /\ session' = "panicked"
                       /\ procs' = procs
    /\ lastCmd' = Cmd("break", regex)
    /\ UNCHANGED <<inferior, pb, others>>

Next ==
    \/ Run
    \/ Continue
    \/ Quit
    \/ Backtrace
    \/ \E regex \in BreakLocations : BreakPoint(regex)

Spec == Init /\ [][Next]_vars

(***************************************************************************)
(* write_byte as a function of memory, address and value: a patch at any   *)
(* address of any of a few memory contents, then a second patch that       *)
(* writes back the byte the first one returned.                            *)
(***************************************************************************)
Images == { Image,
            [a \in Addrs |-> 255],
            [a \in Addrs |-> (a * 29 + 7) % 256] }
PatchValues == {0, 90, 204, 255}

InitPatch ==
    /\ inferior = None
    /\ breakpoints = <<>>
    /\ procs = <<>>
    /\ session = "running"
    /\ lastCmd = NoCmd
    /\ out = <<>>
    /\ oplog = <<>>
    /\ pb \in {[PbIdle EXCEPT !.phase = "ready", !.mem0 = m] : m \in Images}
    /\ OthersIdle

\* write_byte(a, v)
PatchFirst(a, v) ==
    /\ pb.phase = "ready"
    /\ LET r == write_byte(pb.mem0, a, v)
       IN pb' = [pb EXCEPT !.phase = "patched", !.a = a, !.v = v,
                           !.mem1 = r.mem, !.ret1 = r.ret,
                           !.aligned = r.aligned, !.offset = r.offset]
    /\ UNCHANGED <<inferior, breakpoints, procs, session, lastCmd, out, oplog, others>>

\* write_byte(a, original), original the byte the first call returned
PatchRestore ==
    /\ pb.phase = "patched"
    /\ pb' = [pb EXCEPT !.phase = "restored",
                        !.mem2 = write_byte(pb.mem1, pb.a, pb.ret1).mem]
    /\ UNCHANGED <<inferior, breakpoints, procs, session, lastCmd, out, oplog, others>>

NextPatch ==
    \/ \E a \in Addrs, v \in PatchValues : PatchFirst(a, v)
    \/ PatchRestore

SpecPatch == InitPatch /\ [][NextPatch]_vars

(***************************************************************************)
(* Properties                                                              *)
(***************************************************************************)
ContIndices == {i \in 1 .. Len(oplog) : oplog[i].op = "cont"}

\* C1: whenever a resume is issued while the tracee is stopped exactly at a
\* recorded breakpoint address, the three operations before the continue are
\* the restore of the original byte at that address, a single step, and the
\* re-installation of the trap byte.
ResumeProtocol ==
    \A i \in ContIndices :
        oplog[i].at # 0 =>
            /\ i > 3
            /\ oplog[i - 3].op = "poke"
            /\ oplog[i - 3].addr = oplog[i].at
            /\ oplog[i - 3].val = Image[oplog[i].at]
            /\ oplog[i - 2].op = "step"
            /\ oplog[i - 1].op = "poke"
            /\ oplog[i - 1].addr = oplog[i].at
            /\ oplog[i - 1].val = TrapByte

\* C2: at the first resume of every Tracee that run creates, every address of
\* the breakpoint table holds the trap byte in that Tracee's memory.
BreakpointsAppliedBeforeFirstResume ==
    \A i \in ContIndices : oplog[i].first => oplog[i].unpatched = {}

\* a run that resumed a new Tracee with two distinct breakpoints recorded
WitnessFirstResume ==
    /\ lastCmd.cmd = "run"
    /\ Len(breakpoints) = 2
    /\ breakpoints[1] # breakpoints[2]
    /\ \E i \in ContIndices : oplog[i].first /\ oplog[i].pid = inferior

\* C3: after break <function> and run, a continue issued while the tracee is
\* stopped at the breakpoint of that function's entry makes the tracee
\* execute the original instruction at that address, and the continue
\* reports a further stop or an exit.
ForwardProgress ==
    lastCmd.cmd = "continue" =>
        \A i \in ContIndices :
            oplog[i].at \in {e[2] : e \in {f \in FunctionTable :
                                              ResolveLocation(f[1]) = f[2]}} =>
                /\ oplog[i].at \in oplog[i + 1].ran
                /\ out # <<>>

\* C4: at most one Tracee process is live at any time.
AtMostOneLiveTracee ==
    Cardinality({p \in 1 .. Len(procs) : procs[p].state = "stopped"}) <= 1

\* C5: write_byte(a, v) followed by write_byte(a, original), original being
\* the byte the first call returned, leaves memory as it was before the
\* first call.
PatchRoundTrip ==
    pb.phase = "restored" => pb.mem2 = pb.mem0

\* a round trip at byte offset 5 that changed the byte in between
WitnessRoundTrip ==
    /\ pb.phase = "restored"
    /\ pb.offset = 5
    /\ pb.mem1 # pb.mem0

\* C6: write_byte(a, v) works on the word at the greatest multiple of 8 not
\* above a, with byte offset a - aligned in 0..7; afterwards the byte at a is
\* v and the value returned is the byte that was at a before.
PatchByteEffect ==
    pb.phase = "patched" =>
        /\ pb.aligned % 8 = 0
        /\ pb.aligned <= pb.a
        /\ pb.a < pb.aligned + 8
        /\ pb.offset = pb.a - pb.aligned
        /\ pb.mem1[pb.a] = pb.v
        /\ pb.ret1 = pb.mem0[pb.a]

\* a patch of the last byte of the second word with a new value
WitnessPatchByte ==
    /\ pb.phase = "patched"
    /\ pb.a = 15
    /\ pb.offset = 7
    /\ pb.v # pb.mem0[pb.a]

\* C7: write_byte(a, v) leaves every byte other than the one at a unchanged.
PatchByteFrame ==
    pb.phase = "patched" =>
        \A x \in Addrs \ {pb.a} : pb.mem1[x] = pb.mem0[x]

\* a patch in the middle of a word that changed memory
WitnessPatchFrame ==
    /\ pb.phase = "patched"
    /\ pb.offset = 3
    /\ pb.mem1 # pb.mem0

\* C8: the breakpoint table never holds one address twice; a break command
\* that resolves to an address already in the table adds no entry and
\* reports the index of the existing entry.
NoDuplicateBreakpoints ==
    /\ \A i, j \in 1 .. Len(breakpoints) :
           i # j => breakpoints[i] # breakpoints[j]
    /\ (/\ lastCmd.cmd = "break"
        /\ \E k \in 1 .. lastCmd.n0 : breakpoints[k] = ResolveLocation(lastCmd.loc))
       => /\ Len(breakpoints) = lastCmd.n0
          /\ \E k \in 1 .. lastCmd.n0 :
                /\ breakpoints[k] = ResolveLocation(lastCmd.loc)
                /\ out[1].n = k - 1

\* the literal-address syntax for an address below 16
HexLiteral(addr) == <<"*", "0", "x", HexChars[addr + 1]>>

\* C9: for every function of the Symbol Index, break <name> and
\* break *<entry address> each leave the entry address in the breakpoint
\* table.
BreakByNameOrLiteral ==
    \A e \in FunctionTable :
        (lastCmd.cmd = "break" /\ lastCmd.loc \in {e[1], HexLiteral(e[2])})
            => e[2] \in Range(breakpoints)

\* C10: a break location that names a function and that the line-number
\* lookup does not resolve is resolved to the function's entry address.
ResolutionOrder ==
    \A e \in FunctionTable :
        (/\ lastCmd.cmd = "break"
         /\ lastCmd.loc = e[1]
         /\ \/ parse_address(e[1]) = None
            \/ get_addr_for_line(parse_address(e[1])) = None)
            => e[2] \in Range(breakpoints)

\* the value of a string of decimal digits, None for any other string
RECURSIVE DecimalValue(_, _)
DecimalValue(s, acc) ==
    IF s = <<>> THEN acc
    ELSE IF ToDigit(Head(s)) \notin 0 .. 9 THEN None
    ELSE DecimalValue(Tail(s), 10 * acc + ToDigit(Head(s)))

DecimalLine(loc) == IF loc = <<>> THEN None ELSE DecimalValue(loc, 0)

\* C11: a break location consisting of decimal digits n stores the Symbol
\* Index's address for source line n.
DecimalLineBreak ==
    (/\ lastCmd.cmd = "break"
     /\ DecimalLine(lastCmd.loc) # None
     /\ get_addr_for_line(DecimalLine(lastCmd.loc)) # None)
        => get_addr_for_line(DecimalLine(lastCmd.loc)) \in Range(breakpoints)

\* C12: once started, the session ends only on quit: it is running, or it
\* has returned from the quit command.
SessionEndsOnlyOnQuit ==
    \/ session = "running"
    \/ session = "quit" /\ lastCmd.cmd = "quit"

\* a location that is no literal address, that the line lookup does not
\* resolve and that names no function
Unresolvable(loc) ==
    /\ ~starts_with(loc, <<"*">>)
    /\ \/ parse_address(loc) = None
       \/ get_addr_for_line(parse_address(loc)) = None
    /\ get_addr_for_function(loc) = None

ContinueWithoutTargetIsNoOp ==
    [][(lastCmd'.cmd = "continue" /\ inferior = None) =>
          /\ out' = <<Msg("run process first", 0, 0, "")>>
          /\ oplog' = <<>>
          /\ procs' = procs
          /\ inferior' = None
          /\ breakpoints' = breakpoints
          /\ session' = session]_vars

\* a continue with no Tracee held, after a failed start and a break command
WitnessContinueWithoutTarget ==
    /\ lastCmd.cmd = "continue"
    /\ inferior = None
    /\ out = <<Msg("run process first", 0, 0, "")>>
    /\ breakpoints # <<>>
    /\ Len(procs) >= 1

\* the held Tracee's process is no longer alive
HeldTraceeDead == inferior # None /\ procs[inferior].state # "stopped"

\* C15: once a wait has reported the exit of the current tracee, a later
\* continue issues neither a resume nor a wait against it.
NoResumeAfterExit ==
    [][(lastCmd'.cmd = "continue" /\ HeldTraceeDead) =>
          \A i \in 1 .. Len(oplog') : oplog'[i].op \notin {"cont", "wait"}]_vars

\* C16: a continue, backtrace or resolving break whose tracing operation
\* fails on the held Tracee reports an error and leaves the session running
\* with the Tracee discarded.
TraceFailureReportedAndDiscarded ==
    [][(/\ HeldTraceeDead
        /\ \/ lastCmd'.cmd \in {"continue", "backtrace"}
           \/ lastCmd'.cmd = "break" /\ ResolveLocation(lastCmd'.loc) # 0) =>
          /\ \E i \in 1 .. Len(out') : out'[i].msg # "Set breakpoint at"
          /\ inferior' = None
          /\ session' = "running"]_vars

\* the log shows a spawn whose first wait returned Stopped with SIGTRAP
StartedOnTrap(log) ==
    \E i \in 1 .. Len(log) - 1 :
        /\ log[i].op = "spawn" /\ log[i].result = "Ok"
        /\ log[i + 1].op = "wait"
        /\ log[i + 1].result = "Stopped" /\ log[i + 1].sig = "SIGTRAP"

ReplacedTraceeKilledAndReaped ==
    [][(inferior # None /\ lastCmd'.cmd \in {"run", "quit"}) =>
          procs'[inferior].state = "reaped"]_vars

\* C20: a run or quit that terminates a Tracee whose process is already dead
\* surfaces no error, does not end the session abnormally and leaves that
\* process as it was.
TerminateIsIdempotent ==
    [][(HeldTraceeDead /\ lastCmd'.cmd \in {"run", "quit"}) =>
          /\ procs'[inferior] = procs[inferior]
          /\ lastCmd'.cmd = "quit" => (out' = <<>> /\ session' = "quit")
          /\ lastCmd'.cmd = "run" => session' = "running"]_vars

\* a quit that terminated a Tracee whose exit had already been reported
WitnessQuitAfterExit ==
    /\ lastCmd.cmd = "quit"
    /\ session = "quit"
    /\ inferior # None
    /\ out = <<>>
    /\ \E i \in 1 .. Len(oplog) : oplog[i].op = "kill" /\ oplog[i].pid = inferior

(***************************************************************************)
(* Breakpoint table: patching, indices, the stop reported at a breakpoint  *)
(***************************************************************************)
\* what the table keeps for its i-th entry: Vec<u64> holds the address only,
\* and the byte write_byte returns is dropped by the handler
BreakpointRecord(i) == [addr |-> breakpoints[i], orig |-> None]

\* C21: a break that resolves while a Tracee is live has patched the trap
\* byte at the address and recorded the original byte of that address with
\* the new breakpoint; with no Tracee live it writes no memory.
BreakPatchesAndRecordsOriginal ==
    (lastCmd.cmd = "break" /\ Len(breakpoints) = lastCmd.n0 + 1) =>
        LET rec == BreakpointRecord(Len(breakpoints))
        IN IF inferior # None /\ procs[inferior].state = "stopped"
           THEN /\ procs[inferior].mem[rec.addr] = TrapByte
                /\ rec.orig = Image[rec.addr]
           ELSE oplog = <<>>

\* C22: the table only grows at its end: every command keeps the entries it
\* found at their indices, and a successful break reports the index at which
\* its address now stands.
BreakpointIndicesStable ==
    [][/\ Len(breakpoints') >= Len(breakpoints)
       /\ \A i \in 1 .. Len(breakpoints) : breakpoints'[i] = breakpoints[i]
       /\ (lastCmd'.cmd = "break" /\ Len(breakpoints') > Len(breakpoints)) =>
             /\ out'[1].msg = "Set breakpoint at"
             /\ out'[1].n = Len(breakpoints)
             /\ breakpoints'[out'[1].n + 1] = out'[1].addr]_vars

\* a second start (after a failed or replaced one) with two entries in the table
WitnessIndicesAfterRestart ==
    /\ lastCmd.cmd = "run"
    /\ Len(procs) = 2
    /\ Len(breakpoints) = 2
    /\ breakpoints[1] # breakpoints[2]

\* C23: after break <function> and run, when the tracee reaches the function's
\* address A, run reports Stopped with instruction pointer A and the source
\* line of A.
StopReportedAtBreakpointAddress ==
    \A f \in FunctionTable :
        (/\ lastCmd.cmd = "run"
         /\ inferior # None
         /\ ResolveLocation(f[1]) = f[2]
         /\ f[2] \in Range(breakpoints)
         /\ procs[inferior].state = "stopped"
         /\ procs[inferior].trapAt = f[2]) =>
            out = <<Msg("Child stopped (signal)", 0, 0, "SIGTRAP"),
                    Msg("rip, line", get_line_from_addr(f[2]), f[2], "")>>

\* C26: while the session holds a stopped tracee, every address of the
\* breakpoint table holds the trap byte in that tracee's memory.
TableAddressesHoldTrapByte ==
    (session = "running" /\ inferior # None /\ procs[inferior].state = "stopped") =>
        \A i \in 1 .. Len(breakpoints) :
            procs[inferior].mem[breakpoints[i]] = TrapByte

\* a break on a stopped tracee that was started with another breakpoint set
WitnessBreakOnStoppedTracee ==
    /\ lastCmd.cmd = "break"
    /\ session = "running"
    /\ inferior # None
    /\ procs[inferior].state = "stopped"
    /\ Len(breakpoints) = 2
    /\ lastCmd.n0 = 1
    /\ breakpoints[1] # breakpoints[2]
    /\ oplog # <<>>

(***************************************************************************)
(* rdiff: lcs over the Grid of grid.rs                                     *)
(***************************************************************************)
MaxSeqLen == 3
Lines == {"a", "b"}
SeqsUpTo(S, n) == UNION {[1 .. k -> S] : k \in 0 .. n}

\* Grid::new(rows, cols): a rows x cols grid of zeros
Grid_new(rows, cols) ==
    [num_rows |-> rows, num_cols |-> cols,
     elems |-> [r \in 0 .. rows - 1 |-> [c \in 0 .. cols - 1 |-> 0]]]
\* Grid::get(row, col): Some(value), or None outside the grid
Grid_get(g, row, col) ==
    IF row < g.num_rows /\ col < g.num_cols THEN g.elems[row][col] ELSE None
\* Grid::set(row, col, val): Ok with the cell written, or Err outside the grid
Grid_set(g, row, col, val) ==
    IF row < g.num_rows /\ col < g.num_cols
    THEN [g EXCEPT !.elems[row][col] = val] ELSE g
\* Grid::size()
Grid_size(g) == <<g.num_rows, g.num_cols>>

Max2(a, b) == IF a >= b THEN a ELSE b

\* the body of the inner loop with the maximum replaced by its first argument
LcsCellNoMax(g, seq1, seq2, i, j) ==
    IF seq1[i + 1] = seq2[j + 1]
    THEN Grid_set(g, i + 1, j + 1, Grid_get(g, i, j) + 1)
    ELSE Grid_set(g, i + 1, j + 1, Grid_get(g, i + 1, j))
\* the body of the inner loop for (i, s1), (j, s2)
LcsCell(g, seq1, seq2, i, j) ==
    IF seq1[i + 1] = seq2[j + 1]
    THEN Grid_set(g, i + 1, j + 1, Grid_get(g, i, j) + 1)
    ELSE Grid_set(g, i + 1, j + 1,
                  Max2(Grid_get(g, i + 1, j), Grid_get(g, i, j + 1)))

InitLcs ==
    /\ inferior = None
    /\ breakpoints = <<>>
    /\ procs = <<>>
    /\ session = "running"
    /\ lastCmd = NoCmd
    /\ out = <<>>
    /\ oplog = <<>>
    /\ pb = PbIdle
    /\ pm = PmIdle
    /\ bb = BbIdle
    /\ ll = LlIdle
    /\ lcs \in {[phase |-> "called", seq1 |-> a, seq2 |-> b,
                 grid |-> Grid_new(0, 0), i |-> 0, j |-> 0] :
                    a \in SeqsUpTo(Lines, MaxSeqLen), b \in SeqsUpTo(Lines, MaxSeqLen)}

\* let rows = ..; let cols = ..; let mut grid = Grid::new(rows, cols);
LcsNew ==
    /\ lcs.phase = "called"
    /\ lcs' = [lcs EXCEPT !.phase = "loop",
                          !.grid = Grid_new(Len(lcs.seq1) + 1, Len(lcs.seq2) + 1)]
    /\ UNCHANGED <<inferior, breakpoints, procs, session, lastCmd, out, oplog, pb, pm, bb, ll>>

\* one iteration of the nested loops
LcsStep ==
    /\ lcs.phase = "loop"
    /\ lcs.i < Len(lcs.seq1)
    /\ lcs.j < Len(lcs.seq2)
    /\ lcs' = [lcs EXCEPT
                 !.grid = LcsCell(lcs.grid, lcs.seq1, lcs.seq2, lcs.i, lcs.j),
                 !.i = IF lcs.j + 1 = Len(lcs.seq2) THEN lcs.i + 1 ELSE lcs.i,
                 !.j = IF lcs.j + 1 = Len(lcs.seq2) THEN 0 ELSE lcs.j + 1]
    /\ UNCHANGED <<inferior, breakpoints, procs, session, lastCmd, out, oplog, pb, pm, bb, ll>>

\* the loops are over: the grid is returned
LcsReturn ==
    /\ lcs.phase = "loop"
    /\ lcs.i = Len(lcs.seq1) \/ Len(lcs.seq2) = 0
    /\ lcs' = [lcs EXCEPT !.phase = "returned"]
    /\ UNCHANGED <<inferior, breakpoints, procs, session, lastCmd, out, oplog, pb, pm, bb, ll>>

NextLcs == LcsNew \/ LcsStep \/ LcsReturn

SpecLcs == InitLcs /\ [][NextLcs]_vars

\* the elements of s at the positions I, in order
RECURSIVE SubseqAt(_, _)
SubseqAt(s, I) ==
    IF s = <<>> THEN <<>>
    ELSE (IF 1 \in I THEN <<Head(s)>> ELSE <<>>)
         \o SubseqAt(Tail(s), {k - 1 : k \in I \ {1}})
Subsequences(s) == {SubseqAt(s, I) : I \in SUBSET (1 .. Len(s))}
\* the length of a longest common subsequence of a and b
LcsLength(a, b) ==
    LET common == Subsequences(a) \cap Subsequences(b)
    IN CHOOSE n \in 0 .. Len(a) :
          /\ \E x \in common : Len(x) = n
          /\ \A x \in common : Len(x) <= n

\* C25: the grid lcs returns has len(seq1)+1 rows and len(seq2)+1 columns,
\* and its cell (i, j) is the length of a longest common subsequence of the
\* first i elements of seq1 and the first j elements of seq2.
LcsGridCorrect ==
    lcs.phase = "returned" =>
        /\ Grid_size(lcs.grid) = <<Len(lcs.seq1) + 1, Len(lcs.seq2) + 1>>
        /\ \A i \in 0 .. Len(lcs.seq1), j \in 0 .. Len(lcs.seq2) :
              Grid_get(lcs.grid, i, j) =
                  LcsLength(SubSeq(lcs.seq1, 1, i), SubSeq(lcs.seq2, 1, j))

\* a returned grid for two different sequences of full length whose longest
\* common subsequence is shorter than both
WitnessLcsReturned ==
    /\ lcs.phase = "returned"
    /\ Len(lcs.seq1) = MaxSeqLen /\ Len(lcs.seq2) = MaxSeqLen
    /\ Grid_get(lcs.grid, MaxSeqLen, MaxSeqLen) = MaxSeqLen - 1
    /\ Grid_get(lcs.grid, 1, 1) = 0

(***************************************************************************)
(* parallel_map: one channel per worker, one result channel, join, collect *)
(***************************************************************************)
MaxInput == 3
MaxThreads == 3
PmValues == {2, 3}
\* the closure main passes: |num| num * num
F(num) == num * num
\* U::default() for the integers main maps
Default == 0

\* what a call has to leave alone
PmFrame == UNCHANGED <<inferior, breakpoints, procs, session, lastCmd, out, oplog, pb, lcs, bb, ll>>

InitPm ==
    /\ inferior = None
    /\ breakpoints = <<>>
    /\ procs = <<>>
    /\ session = "running"
    /\ lastCmd = NoCmd
    /\ out = <<>>
    /\ oplog = <<>>
    /\ pb = PbIdle
    /\ lcs = LcsIdle
    /\ bb = BbIdle
    /\ ll = LlIdle
    /\ pm \in {[phase |-> "called", input_vec |-> v, num_threads |-> n,
                capacity |-> 0, channels |-> <<>>, worker |-> <<>>, held |-> <<>>,
                results |-> <<>>, output_vec |-> <<>>, k |-> 0,
                applied |-> [i \in 1 .. Len(v) |-> 0]] :
                   v \in SeqsUpTo(PmValues, MaxInput), n \in 1 .. MaxThreads}

\* the (idx, e) pairs sent to the channel of worker w, in sending order
RECURSIVE SentTo(_, _, _, _)
SentTo(v, n, w, idx) ==
    IF idx >= Len(v) THEN <<>>
    ELSE (IF idx % n = w THEN <<(<<idx, v[idx + 1]>>)>> ELSE <<>>)
         \o SentTo(v, n, w, idx + 1)

\* lines 12-44: the output vector is allocated, the channels are created and
\* filled, the senders are dropped and one worker per receiver is spawned
PmSpawn ==
    /\ pm.phase = "called"
    /\ pm' = [pm EXCEPT
                !.phase = "joining",
                !.capacity = Len(pm.input_vec),
                !.channels = [w \in 1 .. pm.num_threads |->
                                 SentTo(pm.input_vec, pm.num_threads, w - 1, 0)],
                !.worker = [w \in 1 .. pm.num_threads |-> "recv"],
                !.held = [w \in 1 .. pm.num_threads |-> <<>>]]
    /\ PmFrame

\* receiver.recv() returns Ok((idx, e)) and f is applied
WorkerRecv(w) ==
    /\ pm.phase = "joining"
    /\ pm.worker[w] = "recv"
    /\ pm.channels[w] # <<>>
    /\ LET m == Head(pm.channels[w])
       IN pm' = [pm EXCEPT !.channels[w] = Tail(@),
                           !.held[w] = <<m[1], F(m[2])>>,
                           !.applied[m[1] + 1] = @ + 1,
                           !.worker[w] = "send"]
    /\ PmFrame

\* result_sender.send((idx, result))
WorkerSend(w) ==
    /\ pm.phase = "joining"
    /\ pm.worker[w] = "send"
    /\ pm' = [pm EXCEPT !.results = Append(@, pm.held[w]),
                        !.held[w] = <<>>,
                        !.worker[w] = "recv"]
    /\ PmFrame

\* the worker when the senders were never dropped: recv on the empty channel
\* blocks and the worker stays where it is
WorkerExitSendersKept(w) ==
    /\ pm.phase = "joining"
    /\ pm.worker[w] = "recv"
    /\ pm.channels[w] = <<>>
    /\ pm' = pm
    /\ PmFrame

\* receiver.recv() returns Err: the channel is empty and its senders are
\* dropped, so the worker leaves its loop
WorkerExit(w) ==
    /\ pm.phase = "joining"
    /\ pm.worker[w] = "recv"
    /\ pm.channels[w] = <<>>
    /\ pm' = [pm EXCEPT !.worker[w] = "exited"]
    /\ PmFrame

\* lines 45-51: every join has returned, the result sender is dropped and the
\* output is filled with defaults up to its capacity
PmJoin ==
    /\ pm.phase = "joining"
    /\ \A w \in 1 .. pm.num_threads : pm.worker[w] = "exited"
    /\ pm' = [pm EXCEPT !.phase = "collecting",
                        !.output_vec = [i \in 1 .. pm.capacity |-> Default],
                        !.k = 0]
    /\ PmFrame

\* the result taken in arrival order instead of being stored at its index
StoreResultArrival(output_vec, m) == Tail(output_vec) \o <<m[2]>>
\* output_vec[idx] = r
StoreResult(output_vec, m) == [output_vec EXCEPT ![m[1] + 1] = m[2]]

\* one iteration of the collecting loop that receives a result
PmCollect ==
    /\ pm.phase = "collecting"
    /\ pm.k < pm.capacity
    /\ pm.results # <<>>
    /\ pm' = [pm EXCEPT !.output_vec = StoreResult(@, Head(pm.results)),
                        !.results = Tail(@),
                        !.k = @ + 1]
    /\ PmFrame

\* the collecting loop ends (its range is used up, or recv returns Err on the
\* empty, closed result channel) and output_vec is returned
PmReturn ==
    /\ pm.phase = "collecting"
    /\ pm.k = pm.capacity \/ pm.results = <<>>
    /\ pm' = [pm EXCEPT !.phase = "returned"]
    /\ PmFrame

NextPm ==
    \/ PmSpawn
    \/ \E w \in 1 .. MaxThreads :
          /\ pm.phase = "joining" /\ w <= pm.num_threads
          /\ (WorkerRecv(w) \/ WorkerSend(w) \/ WorkerExit(w))
    \/ PmJoin
    \/ PmCollect
    \/ PmReturn

SpecPm == InitPm /\ [][NextPm]_vars

\* the next step of worker thread w
WorkerStep(w) ==
    /\ w <= pm.num_threads
    /\ pm.phase = "joining"
    /\ (WorkerRecv(w) \/ WorkerSend(w) \/ WorkerExit(w))

\* the call under a scheduler that lets every thread that can run take its
\* next step: the caller and each spawned worker
SpecPmFair ==
    /\ InitPm
    /\ [][NextPm]_vars
    /\ WF_vars(PmSpawn)
    /\ \A w \in 1 .. MaxThreads : WF_vars(WorkerStep(w))
    /\ WF_vars(PmJoin)
    /\ WF_vars(PmCollect)
    /\ WF_vars(PmReturn)

\* C30: parallel_map(input, n, f) with n >= 1 returns a vector as long as
\* the input whose element at every index i is f(input[i]), whatever the
\* interleaving of the workers, and f was applied to every input element
\* exactly once.
ParallelMapResult ==
    /\ pm.phase # "called" =>
          \A i \in 1 .. Len(pm.input_vec) : pm.applied[i] <= 1
    /\ pm.phase = "returned" =>
          /\ Len(pm.output_vec) = Len(pm.input_vec)
          /\ \A i \in 1 .. Len(pm.input_vec) :
                /\ pm.output_vec[i] = F(pm.input_vec[i])
                /\ pm.applied[i] = 1

\* a returned call with more elements than workers, several workers, and
\* different elements
WitnessParallelMapReturned ==
    /\ pm.phase = "returned"
    /\ pm.num_threads = 2
    /\ Len(pm.input_vec) = 3
    /\ pm.input_vec[1] # pm.input_vec[2]
    /\ pm.output_vec = <<F(pm.input_vec[1]), F(pm.input_vec[2]), F(pm.input_vec[3])>>

(***************************************************************************)
(* balancebeam: ProxyState behind its Mutex, the health check task, the    *)
(* counter reset task, the accept loop and the connection tasks            *)
(***************************************************************************)
MaxRate == 1
MaxConns == 2
MaxChan == 1
\* options.upstream, distinct addresses
ConfiguredUpstreams == <<"u1", "u2">>
Upstreams == Range(ConfiguredUpstreams)
ClientIPs == {"a", "b"}
ConnIds == 1 .. MaxConns

\* resp: the error response that ended the connection, if one did
NoConn == [pc |-> "none", ip |-> "", upstream |-> "", resp |-> ""]
UpStream(address, state) == [address |-> address, state |-> state]

BbFrame == UNCHANGED <<inferior, breakpoints, procs, session, lastCmd, out, oplog, pb, lcs, pm, ll>>

\* main up to the accept loop: the shared state is built from the options,
\* the channel is empty, no connection has been accepted
InitBb ==
    /\ inferior = None
    /\ breakpoints = <<>>
    /\ procs = <<>>
    /\ session = "running"
    /\ lastCmd = NoCmd
    /\ out = <<>>
    /\ oplog = <<>>
    /\ pb = PbIdle
    /\ lcs = LcsIdle
    /\ pm = PmIdle
    /\ ll = LlIdle
    /\ bb \in {[phase |-> "serving",
                max_requests_per_minute |-> n,
                upstream_addresses |-> ConfiguredUpstreams,
                traffic_record |-> [ip \in ClientIPs |-> 0],
                lock |-> 0,
                channel |-> <<>>,
                health |-> 1,
                alive |-> [u \in Upstreams |-> TRUE],
                main |-> [pc |-> "accept", stream |-> 0, msg |-> UpStream("", "")],
                conns |-> [c \in ConnIds |-> NoConn],
                forwarded |-> [ip \in ClientIPs |-> 0]] : n \in {0, MaxRate}}

Contains(list, a) == \E i \in 1 .. Len(list) : list[i] = a
\* Vec::retain(|f| f != a)
Retain(list, a) == SelectSeq(list, LAMBDA f : f # a)
\* Vec::remove(idx), idx counted from 0
Remove(list, idx) == SubSeq(list, 1, idx) \o SubSeq(list, idx + 2, Len(list))

\* an upstream server stops or starts answering
UpstreamDown(u) ==
    /\ bb.alive[u]
    /\ bb' = [bb EXCEPT !.alive[u] = FALSE]
    /\ BbFrame
UpstreamUp(u) ==
    /\ ~bb.alive[u]
    /\ bb' = [bb EXCEPT !.alive[u] = TRUE]
    /\ BbFrame

\* the health check task checks the next address of its copy of the
\* configured list and sends what it found
HealthCheck ==
    /\ Len(bb.channel) < MaxChan
    /\ LET address == ConfiguredUpstreams[bb.health]
       IN bb' = [bb EXCEPT
                   !.channel = Append(@, UpStream(address,
                                   IF bb.alive[address] THEN "Health" ELSE "Ill")),
                   !.health = IF @ = Len(ConfiguredUpstreams) THEN 1 ELSE @ + 1]
    /\ BbFrame

\* the reset task: after its delay it takes the lock and empties the record
ResetTraffic ==
    /\ bb.lock = 0
    /\ bb' = [bb EXCEPT !.traffic_record = [ip \in ClientIPs |-> 0],
                        !.forwarded = [ip \in ClientIPs |-> 0]]
    /\ BbFrame

\* listener.accept() returns a stream; the first client is called "a"
Accept(ip) ==
    /\ bb.main.pc = "accept"
    /\ bb.conns[1].pc = "none" => ip = "a"
    /\ \E c \in ConnIds :
          /\ bb.conns[c].pc = "none"
          /\ \A d \in ConnIds : d < c => bb.conns[d].pc # "none"
          /\ bb' = [bb EXCEPT !.conns[c] = [NoConn EXCEPT !.pc = "accepted", !.ip = ip],
                              !.main = [@ EXCEPT !.pc = "drain", !.stream = c]]
    /\ BbFrame

\* receiver.try_recv() returns a message
DrainRecv ==
    /\ bb.main.pc = "drain"
    /\ bb.channel # <<>>
    /\ bb' = [bb EXCEPT !.main = [@ EXCEPT !.pc = "lock", !.msg = Head(bb.channel)],
                        !.channel = Tail(@)]
    /\ BbFrame

\* the Health arm without its contains test
ProcessMsgAlwaysPush(list, msg) ==
    IF msg.state = "Ill" THEN Retain(list, msg.address)
    ELSE Append(list, msg.address)
\* match msg.state { Ill => retain, Health => push unless contained }
ProcessMsg(list, msg) ==
    IF msg.state = "Ill" THEN Retain(list, msg.address)
    ELSE IF Contains(list, msg.address) THEN list
    ELSE Append(list, msg.address)

\* the accept loop gets the lock and applies the message it received
DrainApply ==
    /\ bb.main.pc = "lock"
    /\ bb.lock = 0
    /\ bb' = [bb EXCEPT !.upstream_addresses = ProcessMsg(@, bb.main.msg),
                        !.main = [@ EXCEPT !.pc = "drain", !.msg = UpStream("", "")]]
    /\ BbFrame

\* try_recv() fails on the empty channel: the connection task is spawned
DrainEnd ==
    /\ bb.main.pc = "drain"
    /\ bb.channel = <<>>
    /\ bb' = [bb EXCEPT !.conns[bb.main.stream].pc = "spawned",
                        !.main = [@ EXCEPT !.pc = "accept", !.stream = 0]]
    /\ BbFrame

\* connect_to_upstream: pick a random index, try to connect, remove the
\* address on failure and pick again; gen_range(0, 0) on the emptied list
\* panics.  The set of ways the call can end.
RECURSIVE connect_to_upstream(_, _)
connect_to_upstream(list, alive) ==
    IF list = <<>>
    THEN {[list |-> list, result |-> "panic", upstream |-> ""]}
    ELSE UNION {IF alive[list[idx + 1]]
                THEN {[list |-> list, result |-> "Ok", upstream |-> list[idx + 1]]}
                ELSE connect_to_upstream(Remove(list, idx), alive) :
                    idx \in 0 .. Len(list) - 1}

\* handle_connection up to its request loop: the task takes the lock, which
\* it keeps until it returns, and connects to an upstream
HandlerStart(c) ==
    /\ bb.conns[c].pc = "spawned"
    /\ bb.lock = 0
    /\ \E o \in connect_to_upstream(bb.upstream_addresses, bb.alive) :
          bb' = [bb EXCEPT
                   !.upstream_addresses = o.list,
                   !.lock = IF o.result = "Ok" THEN c ELSE 0,
                   !.conns[c] = IF o.result = "Ok"
                                THEN [@ EXCEPT !.pc = "open", !.upstream = o.upstream]
                                ELSE IF o.result = "Err"
                                THEN [NoConn EXCEPT !.pc = "closed", !.resp = "502"]
                                ELSE [NoConn EXCEPT !.pc = "panicked"]]
    /\ BbFrame

\* the entry of the record without and_modify: always 1
BumpCountNoModify(record, ip) == [record EXCEPT ![ip] = 1]
\* traffic_record.entry(ip).and_modify(|n| *n += 1).or_insert(1)
BumpCount(record, ip) == [record EXCEPT ![ip] = @ + 1]

\* the requests of the current window handed to an upstream, counted while a
\* limit is set and up to one past it
CountForwarded(n, limit) ==
    IF limit = 0 THEN n ELSE IF n <= limit THEN n + 1 ELSE n

RequestKinds == {"good", "malformed"}

\* one pass of the request loop for a request read from the client: a
\* malformed one is answered 400 and the loop goes on; a good one is counted,
\* then refused with 429 or handed to the upstream, whose failure gives 502
ClientRequest(c, kind) ==
    /\ bb.conns[c].pc = "open"
    /\ bb.lock = c
    /\ LET ip == bb.conns[c].ip
           limit == bb.max_requests_per_minute
           record == IF limit # 0 THEN BumpCount(bb.traffic_record, ip)
                     ELSE bb.traffic_record
       IN IF kind = "malformed"
          THEN bb' = bb
          ELSE IF limit # 0 /\ record[ip] > limit
          THEN bb' = [bb EXCEPT !.traffic_record = record,
                                !.conns[c] = [NoConn EXCEPT !.pc = "closed", !.resp = "429"],
                                !.lock = 0]
          ELSE IF bb.alive[bb.conns[c].upstream]
          THEN bb' = [bb EXCEPT !.traffic_record = record,
                                !.forwarded[ip] = CountForwarded(@, limit)]
          ELSE bb' = [bb EXCEPT !.traffic_record = record,
                                !.forwarded[ip] = CountForwarded(@, limit),
                                !.conns[c] = [NoConn EXCEPT !.pc = "closed", !.resp = "502"],
                                !.lock = 0]
    /\ BbFrame

\* the client hangs up: read_from_stream fails and the task returns
ClientClose(c) ==
    /\ bb.conns[c].pc = "open"
    /\ bb.lock = c
    /\ bb' = [bb EXCEPT !.conns[c] = [NoConn EXCEPT !.pc = "closed"],
                        !.lock = 0]
    /\ BbFrame

NextBb ==
    \/ \E u \in Upstreams : UpstreamDown(u)
    \/ \E u \in Upstreams : UpstreamUp(u)
    \/ HealthCheck
    \/ ResetTraffic
    \/ \E ip \in ClientIPs : Accept(ip)
    \/ DrainRecv
    \/ DrainApply
    \/ DrainEnd
    \/ \E c \in ConnIds : HandlerStart(c)
    \/ \E c \in ConnIds, kind \in RequestKinds : ClientRequest(c, kind)
    \/ \E c \in ConnIds : ClientClose(c)

SpecBb == InitBb /\ [][NextBb]_vars

\* the requests of the window forwarded for any one client stay within the limit
ForwardedWithinLimit ==
    bb.max_requests_per_minute # 0 =>
        \A ip \in ClientIPs : bb.forwarded[ip] <= bb.max_requests_per_minute

\* C24: with a limit N > 0 at most N requests of one client IP are forwarded
\* within one counting window and every further request of that IP in the
\* window is answered 429 and not forwarded; with N = 0 no request is ever
\* answered 429.
RateLimiting ==
    [][/\ ForwardedWithinLimit'
       /\ \A c \in ConnIds :
             LET ip == bb.conns[c].ip
             IN (/\ bb.conns[c].pc = "open"
                 /\ bb.max_requests_per_minute # 0
                 /\ bb.forwarded[ip] = bb.max_requests_per_minute
                 /\ bb'.traffic_record[ip] > bb.traffic_record[ip]) =>
                    /\ bb'.conns[c].resp = "429"
                    /\ bb'.forwarded = bb.forwarded
       /\ bb.max_requests_per_minute = 0 =>
             \A c \in ConnIds : bb'.conns[c].resp # "429"]_vars

\* the limit was used up on a first connection and a second connection of the
\* same client was answered 429 in the same window
WitnessRateLimited ==
    /\ bb.max_requests_per_minute # 0
    /\ bb.conns[1].pc = "closed" /\ bb.conns[1].resp = ""
    /\ bb.conns[2].pc = "closed" /\ bb.conns[2].resp = "429"
    /\ bb.forwarded["a"] = bb.max_requests_per_minute
    /\ bb.traffic_record["a"] = bb.max_requests_per_minute + 1
    /\ bb.traffic_record["b"] = 0

\* C27: when a connection task starts and no upstream of the current list
\* can be connected to, the client is answered 502 and the task returns
\* normally.
ConnectFailureAnswered ==
    [][\A c \in ConnIds :
          (/\ bb.conns[c].pc = "spawned"
           /\ bb'.conns[c].pc # "spawned"
           /\ \A i \in 1 .. Len(bb.upstream_addresses) :
                 ~bb.alive[bb.upstream_addresses[i]]) =>
              /\ bb'.conns[c].pc = "closed"
              /\ bb'.conns[c].resp = "502"]_vars

\* C28: while one connection is open and waiting for its next request, a
\* spawned connection task can go on to connect to an upstream and the
\* counter reset can take place.
ClientsNotSerialized ==
    \A c \in ConnIds :
        bb.conns[c].pc = "open" =>
            /\ ENABLED ResetTraffic
            /\ \A d \in ConnIds :
                  bb.conns[d].pc = "spawned" => ENABLED HandlerStart(d)

NoDuplicates(list) ==
    \A i, j \in 1 .. Len(list) : list[i] = list[j] => i = j

\* C29: the upstream list never holds a duplicate or an address that was not
\* configured; applying an Ill message leaves the address out of the list,
\* applying a Health message leaves it in (appended when it was absent), and
\* a connection task picks its upstream from the list as it then stands.
UpstreamSetWellFormed ==
    [][/\ NoDuplicates(bb'.upstream_addresses)
       /\ Range(bb'.upstream_addresses) \subseteq Upstreams
       /\ (bb.main.pc = "lock" /\ bb'.main.pc = "drain") =>
             LET msg == bb.main.msg
             IN /\ msg.state = "Ill" =>
                      ~Contains(bb'.upstream_addresses, msg.address)
                /\ msg.state = "Health" =>
                      Contains(bb'.upstream_addresses, msg.address)
                /\ (msg.state = "Health" /\ ~Contains(bb.upstream_addresses, msg.address)) =>
                      bb'.upstream_addresses = Append(bb.upstream_addresses, msg.address)
       /\ \A c \in ConnIds :
             (bb.conns[c].pc = "spawned" /\ bb'.conns[c].pc = "open") =>
                 Contains(bb.upstream_addresses, bb'.conns[c].upstream)]_vars

\* every upstream was removed by the failed attempts of the first
\* connection, and the second connection is connected to one that a Health
\* message put back
WitnessUpstreamReadded ==
    /\ bb.conns[1].pc = "panicked"
    /\ bb.conns[2].pc = "open"
    /\ bb.conns[2].upstream = "u1"
    /\ bb.upstream_addresses = <<"u1">>

\* C31: parallel_map terminates for every input length and every n >= 1:
\* every worker sees its channel closed and exits, the joins complete and the
\* collecting loop finishes, so the call returns.
ParallelMapTerminates ==
    <>(/\ pm.phase = "returned"
       /\ \A w \in 1 .. pm.num_threads : pm.worker[w] = "exited"
       /\ pm.results = <<>>)

\* a returned call with fewer elements than workers: some workers never
\* received anything
WitnessFewerElementsThanWorkers ==
    /\ pm.phase = "returned"
    /\ Len(pm.input_vec) = 1
    /\ pm.num_threads = MaxThreads
    /\ \A w \in 1 .. pm.num_threads : pm.worker[w] = "exited"

(***************************************************************************)
(* linked_list: LinkedList<T> with its head chain and its size field       *)
(***************************************************************************)
MaxNodes == 6
ListValues == {1, 2}

\* Option<Box<Node<T>>>: None, or Some(node) with node = [value, next]
NoneNode == <<>>
SomeNode(node) == <<node>>
\* Node::new(value, next)
Node_new(value, next) == [value |-> value, next |-> next]

\* LinkedList::new()
LinkedList_new == [head |-> NoneNode, size |-> 0]
\* LinkedList::get_size
get_size(list) == list.size
\* LinkedList::is_empty
is_empty(list) == get_size(list) = 0
\* LinkedList::push_front
push_front(list, value) ==
    [head |-> SomeNode(Node_new(value, list.head)), size |-> list.size + 1]
\* pop_front that takes the node off but leaves the size field alone
pop_front_size_kept(list) ==
    IF list.head = NoneNode
    THEN [list |-> list, ret |-> None]
    ELSE [list |-> [head |-> list.head[1].next, size |-> list.size],
          ret |-> list.head[1].value]
\* LinkedList::pop_front: the new list and the returned Option<T>
pop_front(list) ==
    IF list.head = NoneNode
    THEN [list |-> list, ret |-> None]
    ELSE [list |-> [head |-> list.head[1].next, size |-> list.size - 1],
          ret |-> list.head[1].value]

LlFrame == UNCHANGED <<inferior, breakpoints, procs, session, lastCmd, out, oplog, pb, lcs, pm, bb>>

\* let mut list: LinkedList<u32> = LinkedList::new();
InitLl ==
    /\ inferior = None
    /\ breakpoints = <<>>
    /\ procs = <<>>
    /\ session = "running"
    /\ lastCmd = NoCmd
    /\ out = <<>>
    /\ oplog = <<>>
    /\ pb = PbIdle
    /\ lcs = LcsIdle
    /\ pm = PmIdle
    /\ bb = BbIdle
    /\ ll = [phase |-> "new", list |-> LinkedList_new,
             op |-> "new", was_empty |-> TRUE, ret |-> None]

\* list.push_front(value)
PushFront(value) ==
    /\ ll.list.size < MaxNodes
    /\ ll' = [phase |-> "used", list |-> push_front(ll.list, value),
              op |-> "push_front", was_empty |-> is_empty(ll.list), ret |-> None]
    /\ LlFrame

\* list.pop_front()
PopFront ==
    /\ LET r == pop_front(ll.list)
       IN ll' = [phase |-> "used", list |-> r.list,
                 op |-> "pop_front", was_empty |-> ll.list.head = NoneNode,
                 ret |-> r.ret]
    /\ LlFrame

NextLl ==
    \/ \E value \in ListValues : PushFront(value)
    \/ PopFront

SpecLl == InitLl /\ [][NextLl]_vars

\* the number of nodes reachable from an Option<Box<Node>> along next
RECURSIVE NodesFrom(_)
NodesFrom(link) == IF link = NoneNode THEN 0 ELSE 1 + NodesFrom(link[1].next)

\* C32: a new list is empty with size 0; after any sequence of push_front
\* and pop_front get_size is the number of nodes reachable from head and
\* is_empty holds exactly when that number is 0; pop_front on an empty list
\* returns None and leaves the list empty.
SizeCountsReachableNodes ==
    /\ ll.op = "new" => (is_empty(ll.list) /\ get_size(ll.list) = 0)
    /\ get_size(ll.list) = NodesFrom(ll.list.head)
    /\ is_empty(ll.list) <=> NodesFrom(ll.list.head) = 0
    /\ (ll.op = "pop_front" /\ ll.was_empty) =>
          (ll.ret = None /\ ll.list = LinkedList_new)

\* a pop_front called on an empty list
WitnessPopOnEmptiedList ==
    /\ ll.op = "pop_front"
    /\ ll.was_empty
    /\ ll.phase = "used"
    /\ ll.list.head = NoneNode

====
